---- MODULE Spec2Model ----
(***************************************************************************)
(* A model of the AMQP 1.0 Session of node-amqp10 (src/lib/session.js).    *)
(*                                                                         *)
(* The Session object is the record Cur (one field per JavaScript field),  *)
(* together with the part of the Connection it talks to (the local channel *)
(* map and the FrameReceived listeners).  Every method of Session is an    *)
(* operator from a session record to a session record, so that a handler   *)
(* that calls other methods (_processFrame -> _endReceived, _sendEnd,      *)
(* _unmap) is the composition of their operators, and an action is one     *)
(* whole public call or one whole dispatch of an inbound frame.            *)
(*                                                                         *)
(* JavaScript values: a number is an integer; `undefined`, `null` and NaN   *)
(* are the integers Undef, Null and NaN, far outside the range the         *)
(* counters of this model can reach.                                       *)
(***************************************************************************)
EXTENDS Integers, Sequences, FiniteSets, TLC

\* ------------------------------------------------------------------ bounds
\* local channels the Connection can hand out: 0 .. MaxChannel
MaxChannel == 1
Channels == 0 .. MaxChannel

\* ------------------------------------------------------- JavaScript values
Undef == 0 - 1000
NaN == 0 - 1001
Null == 0 - 999

\* typeof x === 'number' and x is not NaN
IsNum(x) == x # Undef /\ x # NaN /\ x # Null

\* The number an arithmetic operator or a comparison makes of x: null is 0,
\* undefined is NaN
Num(x) == IF x = Null THEN 0 ELSE IF x = Undef THEN NaN ELSE x

\* x-- and x++
Dec(x) == IF Num(x) = NaN THEN NaN ELSE Num(x) - 1
Inc(x) == IF Num(x) = NaN THEN NaN ELSE Num(x) + 1
\* a + b - c
AddSub(a, b, c) ==
  IF Num(a) = NaN \/ Num(b) = NaN \/ Num(c) = NaN THEN NaN
  ELSE Num(a) + Num(b) - Num(c)
\* a <= b (false when an operand is NaN)
Leq(a, b) == Num(a) # NaN /\ Num(b) # NaN /\ Num(a) <= Num(b)
\* x < 0 (false for NaN)
Neg(x) == Num(x) # NaN /\ Num(x) < 0
\* truthiness of a number-or-missing value: 0, NaN, null and undefined are falsy
Truthy(x) == IsNum(x) /\ x # 0
\* a || b
OrElse(a, b) == IF Truthy(a) THEN a ELSE b
\* Math.min(a, b)
MathMin(a, b) ==
  IF Num(a) = NaN \/ Num(b) = NaN THEN NaN
  ELSE IF Num(a) <= Num(b) THEN Num(a) ELSE Num(b)

\* constants.defaultHandleMax (lib/constants.js): the largest 32-bit handle,
\* 4294967295 in AMQP; written as the largest integer the checker holds, which
\* like it exceeds every handle and every handleMax a peer or a policy gives here
defaultHandleMax == 2147483647

\* ------------------------------------------------------------ input domains
\* sessionPolicy: options {nextOutgoingId, incomingWindow, outgoingWindow,
\* handleMax (optional)} and enableSessionFlowControl
PolicySet(ids, outs, hms, fcs) ==
  [nextOutgoingId : ids, incomingWindow : {1}, outgoingWindow : outs,
   handleMax : hms, enableSessionFlowControl : fcs]

\* linkPolicy: options.name and the role of the link it makes
LinkPolicySet(names, roles) == [name : names, role : roles]

\* An inbound frame: its kind (the class `instanceof` tests) and the fields
\* _processFrame and its callees read.  A field a decoded frame does not carry
\* is Null; a channel nobody set is Undef.  The frame sets below take the
\* values of the fields the code tests for being missing, so a configuration
\* can give them as Null, as Undef or as numbers.
NoFrame ==
  [type |-> "None", channel |-> Undef, remoteChannel |-> Null,
   nextOutgoingId |-> Null, nextIncomingId |-> Null, incomingWindow |-> Null,
   outgoingWindow |-> Null, handleMax |-> Null, handle |-> Null,
   deliveryId |-> Null, name |-> "", role |-> "", first |-> Null,
   last |-> Null, settled |-> FALSE, error |-> FALSE]

BeginFrames(cs, rcs, iws, hms) ==
  {[NoFrame EXCEPT !.type = "Begin", !.channel = c, !.remoteChannel = rc,
                   !.nextOutgoingId = 0, !.incomingWindow = iw,
                   !.outgoingWindow = 2, !.handleMax = hm] :
     c \in cs, rc \in rcs, iw \in iws, hm \in hms}

EndFrames(cs, errs) ==
  {[NoFrame EXCEPT !.type = "End", !.channel = c, !.error = e] :
     c \in cs, e \in errs}

AttachFrames(cs, names, hs) ==
  {[NoFrame EXCEPT !.type = "Attach", !.channel = c, !.name = n, !.handle = h] :
     c \in cs, n \in names, h \in hs}

DetachFrames(cs, hs) ==
  {[NoFrame EXCEPT !.type = "Detach", !.channel = c, !.handle = h] :
     c \in cs, h \in hs}

FlowFrames(cs, nis, iws, hs) ==
  {[NoFrame EXCEPT !.type = "Flow", !.channel = c, !.nextOutgoingId = 1,
                   !.outgoingWindow = 1, !.nextIncomingId = ni,
                   !.incomingWindow = iw, !.handle = h] :
     c \in cs, ni \in nis, iw \in iws, h \in hs}

TransferFrames(cs, hs, ds) ==
  {[NoFrame EXCEPT !.type = "Transfer", !.channel = c, !.handle = h,
                   !.deliveryId = d] :
     c \in cs, h \in hs, d \in ds}

DispositionFrames(cs, roles, firsts, lasts, settleds) ==
  {[NoFrame EXCEPT !.type = "Disposition", !.channel = c, !.role = r,
                   !.first = fi, !.last = la, !.settled = st] :
     c \in cs, r \in roles, fi \in firsts, la \in lasts, st \in settleds}

OtherFrames(cs) == {[NoFrame EXCEPT !.type = "Other", !.channel = c] : c \in cs}

\* ------------------------------------------------------------------- state
VARIABLES
  sessionSM,            \* this.sessionSM.getMachineState()
  channel,              \* this.channel (our local channel)
  remoteChannel,        \* this.remoteChannel
  mapped,               \* this.mapped
  enableSessionFlowControl, \* this.policy.enableSessionFlowControl
  sessionParams,        \* this._sessionParams (NoParams before begin)
  initialOutgoingId,    \* this._initialOutgoingId
  allocatedHandles,     \* this._allocatedHandles: handle -> Link (its name and role)
  linksByName,          \* this._linksByName: name -> Link (its handle)
  linksByRemoteHandle,  \* this._linksByRemoteHandle: remote handle -> Link (its handle)
  senderLinks,          \* this._senderLinks: Links (their handles) in attach order
  transfersInFlight,    \* keys of this._transfersInFlight
  localChannelMap,      \* Connection: the local channels sessions are associated with
  listeners,            \* Connection: FrameReceived listeners this session has registered
  trace,                \* what the last operation did to its collaborators, in order
  smLog,                \* the state-machine events the last operation fired
  lastOp,               \* the last operation and its arguments
  nBegin,               \* begin calls so far
  nUnmap,               \* unmap cleanups so far
  hist                  \* the windows when the peer's Begin took effect, and the
                        \* sendMessage calls and Flow frames since then

vars ==
  <<sessionSM, channel, remoteChannel, mapped, enableSessionFlowControl, sessionParams,
    initialOutgoingId, allocatedHandles, linksByName, linksByRemoteHandle,
    senderLinks, transfersInFlight, localChannelMap, listeners, trace, smLog,
    lastOp, nBegin, nUnmap, hist>>

NoParams ==
  [nextOutgoingId |-> Undef, incomingWindow |-> Undef, outgoingWindow |-> Undef,
   handleMax |-> Undef, nextIncomingId |-> Undef, remoteIncomingWindow |-> Undef,
   remoteOutgoingWindow |-> Undef]

\* One entry of trace: a call on a collaborator, a notification, or a throw.
Ev(kind, what, n, m) == [ev |-> kind, arg |-> what, n |-> n, m |-> m]

\* The session (with its Connection) as one value.
Cur ==
  [sm |-> sessionSM, channel |-> channel, remoteChannel |-> remoteChannel,
   mapped |-> mapped, fc |-> enableSessionFlowControl, p |-> sessionParams,
   initialOutgoingId |-> initialOutgoingId, allocatedHandles |-> allocatedHandles,
   linksByName |-> linksByName, linksByRemoteHandle |-> linksByRemoteHandle,
   senderLinks |-> senderLinks, transfersInFlight |-> transfersInFlight,
   localChannelMap |-> localChannelMap, listeners |-> listeners,
   trace |-> <<>>, smLog |-> <<>>, thrown |-> FALSE]

\* new Session(conn)
Fresh ==
  [sm |-> "UNMAPPED", channel |-> Undef, remoteChannel |-> Undef,
   mapped |-> FALSE, fc |-> FALSE, p |-> NoParams,
   initialOutgoingId |-> Undef, allocatedHandles |-> <<>>,
   linksByName |-> <<>>, linksByRemoteHandle |-> <<>>,
   senderLinks |-> <<>>, transfersInFlight |-> {},
   localChannelMap |-> {}, listeners |-> 0,
   trace |-> <<>>, smLog |-> <<>>, thrown |-> FALSE]

Log(s, e) == [s EXCEPT !.trace = Append(@, e)]

\* throw new <what>: the rest of the operation does not run
Throw(s, what) == [Log(s, Ev("throw", what, Undef, Undef)) EXCEPT !.thrown = TRUE]

\* ----------------------------------------------------------- state machine
States ==
  {"UNMAPPED", "BEGIN_SENT", "MAPPED", "END_SENT", "DISCARDING", "END_RCVD"}
Triggers == {"sendBegin", "beginReceived", "sendEnd", "endReceived"}

\* stateMachine with MAPPED answering sendEnd by DISCARDING
stateMachineDiscards(state, event) ==
  CASE state = "UNMAPPED" /\ event = "sendBegin" -> "BEGIN_SENT"
    [] state = "BEGIN_SENT" /\ event = "beginReceived" -> "MAPPED"
    [] state = "MAPPED" /\ event = "sendEnd" -> "DISCARDING"
    [] state = "MAPPED" /\ event = "endReceived" -> "END_RCVD"
    [] state = "END_SENT" /\ event = "endReceived" -> "UNMAPPED"
    [] state = "DISCARDING" /\ event = "endReceived" -> "UNMAPPED"
    [] state = "END_RCVD" /\ event = "sendEnd" -> "UNMAPPED"
    [] OTHER -> state

\* stateMachine with END_SENT also answering sendEnd, as END_RCVD does
stateMachineEndTwice(state, event) ==
  CASE state = "UNMAPPED" /\ event = "sendBegin" -> "BEGIN_SENT"
    [] state = "BEGIN_SENT" /\ event = "beginReceived" -> "MAPPED"
    [] state = "MAPPED" /\ event = "sendEnd" -> "END_SENT"
    [] state = "MAPPED" /\ event = "endReceived" -> "END_RCVD"
    [] state = "END_SENT" /\ event \in {"endReceived", "sendEnd"} -> "UNMAPPED"
    [] state = "DISCARDING" /\ event = "endReceived" -> "UNMAPPED"
    [] state = "END_RCVD" /\ event = "sendEnd" -> "UNMAPPED"
    [] OTHER -> state

\* The table given to StateMachine; an event the current state does not define
\* is ignored by the library and leaves the state as it is.
stateMachine(state, event) ==
  CASE state = "UNMAPPED" /\ event = "sendBegin" -> "BEGIN_SENT"
    [] state = "BEGIN_SENT" /\ event = "beginReceived" -> "MAPPED"
    [] state = "MAPPED" /\ event = "sendEnd" -> "END_SENT"
    [] state = "MAPPED" /\ event = "endReceived" -> "END_RCVD"
    [] state = "END_SENT" /\ event = "endReceived" -> "UNMAPPED"
    [] state = "DISCARDING" /\ event = "endReceived" -> "UNMAPPED"
    [] state = "END_RCVD" /\ event = "sendEnd" -> "UNMAPPED"
    [] OTHER -> state

\* this.sessionSM.<event>()
Fire(s, event) ==
  [s EXCEPT !.sm = stateMachine(s.sm, event),
            !.smLog = Append(@, [from |-> s.sm, trigger |-> event,
                                 to |-> stateMachine(s.sm, event)])]

\* ------------------------------------------------------------- Connection
\* connection.associateSession(session): the lowest local channel not in use
associateSession(map) ==
  CHOOSE c \in Channels \ map : \A d \in Channels \ map : c <= d

\* connection.dissociateSession(channel)
dissociateSession(map, c) == map \ {c}

\* -------------------------------------------------------------------- Link
\* link._attachReceived(frame): the Link records the peer's handle and
\* registers itself under it in the session's _linksByRemoteHandle
LinkAttachReceived(s, link, frame) ==
  [Log(s, Ev("link", "_attachReceived", link, Undef))
     EXCEPT !.linksByRemoteHandle = (frame.handle :> link) @@ @]

\* ----------------------------------------------------------------- Session
\* _unmap that forgets to clear channel and remoteChannel
UnmapKeepsChannels(s) ==
  IF s.channel # Undef
    THEN Log([Log(Log(s, Ev("conn", "removeListener", Undef, Undef)),
                  Ev("conn", "dissociateSession", s.channel, Undef))
                EXCEPT !.listeners = IF @ > 0 THEN @ - 1 ELSE 0,
                       !.localChannelMap = dissociateSession(@, s.channel),
                       !.mapped = FALSE],
             Ev("emit", "Unmapped", Undef, Undef))
    ELSE s

\* Session.prototype._unmap
Unmap(s) ==
  IF s.channel # Undef
    THEN Log([Log(Log(s, Ev("conn", "removeListener", Undef, Undef)),
                  Ev("conn", "dissociateSession", s.channel, Undef))
                EXCEPT !.listeners = IF @ > 0 THEN @ - 1 ELSE 0,
                       !.localChannelMap = dissociateSession(@, s.channel),
                       !.remoteChannel = Undef,
                       !.channel = Undef,
                       !.mapped = FALSE],
             Ev("emit", "Unmapped", Undef, Undef))
    ELSE s

\* Session.prototype._sendEnd
SendEnd(s) == Log(s, Ev("sendFrame", "End", s.channel, Undef))

\* Session.prototype._endReceived
EndReceived(s, frame) ==
  IF frame.error THEN Log(s, Ev("emit", "ErrorReceived", Undef, Undef)) ELSE s

\* Session.prototype._beginReceived; on a session that never began there is
\* no _sessionParams and the first write to it throws
BeginReceived(s, frame) ==
  IF s.p = NoParams
    THEN Throw([s EXCEPT !.remoteChannel = frame.channel], "TypeError")
  ELSE
  Log([s EXCEPT !.remoteChannel = frame.channel,
                !.p.nextIncomingId = frame.nextOutgoingId,
                !.p.remoteIncomingWindow = frame.incomingWindow,
                !.p.remoteOutgoingWindow = frame.outgoingWindow,
                !.p.handleMax =
                   IF Truthy(s.p.handleMax)
                     THEN MathMin(s.p.handleMax,
                                  OrElse(frame.handleMax, defaultHandleMax))
                     ELSE OrElse(frame.handleMax, defaultHandleMax),
                !.mapped = TRUE],
      Ev("emit", "Mapped", Undef, Undef))

\* _flowReceived that always measures from the session's initial id
FlowReceivedFromInitialId(s, frame) ==
  [s EXCEPT !.p.nextIncomingId = frame.nextOutgoingId,
            !.p.remoteOutgoingWindow = frame.outgoingWindow,
            !.p.remoteIncomingWindow =
               AddSub(s.initialOutgoingId, frame.incomingWindow, s.p.nextOutgoingId)]

\* Session.prototype._flowReceived
FlowReceived(s, frame) ==
  [s EXCEPT !.p.nextIncomingId = frame.nextOutgoingId,
            !.p.remoteOutgoingWindow = frame.outgoingWindow,
            !.p.remoteIncomingWindow =
               IF frame.nextIncomingId = Undef \/ frame.nextIncomingId = Null
                 THEN AddSub(s.initialOutgoingId, frame.incomingWindow,
                             s.p.nextOutgoingId)
                 ELSE AddSub(frame.nextIncomingId, frame.incomingWindow,
                             s.p.nextOutgoingId)]

\* Session.prototype._transferReceived
TransferReceived(s, frame) ==
  [s EXCEPT !.p.incomingWindow = Dec(@),
            !.p.remoteOutgoingWindow = Dec(@),
            !.p.nextIncomingId =
               IF frame.deliveryId # Undef /\ frame.deliveryId # Null
                 THEN frame.deliveryId + 1 ELSE @]

\* Session.prototype.begin
Begin(s, pol) ==
  LET ch == associateSession(s.localChannelMap)
      s1 == [Log(s, Ev("conn", "associateSession", ch, Undef))
               EXCEPT !.fc = pol.enableSessionFlowControl,
                      !.channel = ch,
                      !.localChannelMap = @ \cup {ch},
                      !.p = [NoParams EXCEPT
                               !.nextOutgoingId = pol.nextOutgoingId,
                               !.incomingWindow = pol.incomingWindow,
                               !.outgoingWindow = pol.outgoingWindow,
                               !.handleMax = pol.handleMax],
                      !.initialOutgoingId = pol.nextOutgoingId]
      s2 == Fire(s1, "sendBegin")
      s3 == [Log(s2, Ev("conn", "on", Undef, Undef)) EXCEPT !.listeners = @ + 1]
  IN  Log(s3, Ev("sendFrame", "Begin", ch, Undef))

\* _nextHandle scanning hid < handleMax
NextHandleStopsShort(s) ==
  LET free == {h \in 0 .. Cardinality(DOMAIN s.allocatedHandles) :
                 /\ Leq(h, s.p.handleMax) /\ h # Num(s.p.handleMax)
                 /\ h \notin DOMAIN s.allocatedHandles}
  IN  IF free = {} THEN Undef
      ELSE CHOOSE h \in free : \A g \in free : h <= g

\* Session.prototype._nextHandle: the handle, or Undef when it throws.  A free
\* handle, if there is one, is at most the number of handles in use.
NextHandle(s) ==
  LET free == {h \in 0 .. Cardinality(DOMAIN s.allocatedHandles) :
                 /\ Leq(h, s.p.handleMax)
                 /\ h \notin DOMAIN s.allocatedHandles}
  IN  IF free = {} THEN Undef
      ELSE CHOOSE h \in free : \A g \in free : h <= g

\* Session.prototype.attachLink; without _sessionParams _nextHandle throws
AttachLink(s, lp) ==
  LET h == NextHandle(s)
  IN  IF s.p = NoParams THEN Throw(s, "TypeError")
      ELSE IF h = Undef THEN Throw(s, "OverCapacityError")
      ELSE [Log(s, Ev("link", "attach", h, Undef))
              EXCEPT !.allocatedHandles = (h :> [name |-> lp.name, role |-> lp.role]) @@ @,
                     !.linksByName = (lp.name :> h) @@ @,
                     !.senderLinks = IF lp.role = "sender" THEN Append(@, h) ELSE @]

\* sendMessage that checks the window before it touches the counters
SendMessageRollsBack(s, link) ==
  LET messageId == s.p.nextOutgoingId
      s1 == [s EXCEPT !.p.nextOutgoingId = Inc(@),
                      !.p.remoteIncomingWindow = Dec(@),
                      !.p.outgoingWindow = Dec(@)]
      s2 == IF Neg(s1.p.remoteIncomingWindow) /\ ~s1.fc
              THEN [s1 EXCEPT !.p.remoteIncomingWindow = 0, !.p.outgoingWindow = 0]
              ELSE s1
  IN  IF Neg(s1.p.remoteIncomingWindow) /\ s1.fc
        THEN Throw(s, "OverCapacityError")
        ELSE Log([s2 EXCEPT !.transfersInFlight = @ \cup {messageId}],
                 Ev("link", "_sendMessage", link, messageId))

\* Session.prototype.sendMessage; without _sessionParams its first line throws
SendMessage(s, link) ==
  LET messageId == s.p.nextOutgoingId
      s1 == [s EXCEPT !.p.nextOutgoingId = Inc(@),
                      !.p.remoteIncomingWindow = Dec(@),
                      !.p.outgoingWindow = Dec(@)]
      s2 == IF Neg(s1.p.remoteIncomingWindow) /\ ~s1.fc
              THEN [s1 EXCEPT !.p.remoteIncomingWindow = 0, !.p.outgoingWindow = 0]
              ELSE s1
  IN  IF s.p = NoParams THEN Throw(s, "TypeError")
      ELSE IF Neg(s1.p.remoteIncomingWindow) /\ s1.fc
        THEN Throw(s1, "OverCapacityError")
        ELSE Log([s2 EXCEPT !.transfersInFlight = @ \cup {messageId}],
                 Ev("link", "_sendMessage", link, messageId))

\* Session.prototype.addWindow; without _sessionParams its first write throws
AddWindow(s, windowSize) ==
  IF s.p = NoParams THEN Throw(s, "TypeError")
  ELSE
  Log([s EXCEPT !.p.incomingWindow = AddSub(@, windowSize, 0)],
      Ev("sendFrame", "Flow", s.channel, Undef))

\* end that only warns when there is no remote channel
EndSkipsCleanup(s) ==
  IF s.remoteChannel # Undef
    THEN LET s1 == SendEnd(Fire(s, "sendEnd"))
         IN  IF s1.sm = "UNMAPPED" THEN Unmap(s1) ELSE s1
    ELSE Log(s, Ev("warn", "end before mapped", s.channel, Undef))

\* Session.prototype.end
End(s) ==
  IF s.remoteChannel # Undef
    THEN LET s1 == SendEnd(Fire(s, "sendEnd"))
         IN  IF s1.sm = "UNMAPPED" THEN Unmap(s1) ELSE s1
    ELSE Unmap(Log(s, Ev("warn", "end before mapped", s.channel, Undef)))

\* The Disposition branch of _processFrame
DispositionReceived(s, frame) ==
  IF frame.role # "receiver" THEN s
  ELSE LET first == frame.first
           last == OrElse(frame.last, first)
           \* the loop looks up its counter as it is, then counts from Num(first)
           settledIds ==
             {id \in s.transfersInFlight :
                /\ Leq(first, last)
                /\ \/ id = first
                   \/ IsNum(id) /\ Num(first) < id /\ Leq(id, last)}
       IN  Log([s EXCEPT !.transfersInFlight =
                           IF frame.settled THEN @ \ settledIds ELSE @],
               Ev("emit",
                  IF frame.settled THEN "DispositionReceived settled"
                                   ELSE "DispositionReceived unsettled",
                  first, last))

\* The End branch with the carried error surfaced after our End is sent
EndFrameReceivedErrorLast(s, frame) ==
  LET s1 == Fire(s, "endReceived")
      s2 == IF s1.sm # "UNMAPPED" THEN SendEnd(Fire(s1, "sendEnd")) ELSE s1
  IN  Unmap(EndReceived(s2, frame))

\* The End branch of _processFrame
EndFrameReceived(s, frame) ==
  LET s1 == EndReceived(Fire(s, "endReceived"), frame)
      s2 == IF s1.sm # "UNMAPPED" THEN SendEnd(Fire(s1, "sendEnd")) ELSE s1
  IN  Unmap(s2)

Known(map, key) == key \in DOMAIN map

\* _processFrame that compares the channels without asking for a channel
ProcessFrameUnchecked(s, frame) ==
  IF frame.type = "Begin" /\ frame.remoteChannel = s.channel
    THEN BeginReceived(Fire(s, "beginReceived"), frame)
  ELSE IF frame.channel # s.remoteChannel
    THEN s
  ELSE CASE frame.type = "End" -> EndFrameReceived(s, frame)
    [] frame.type = "Attach" ->
         IF frame.name # "" /\ Known(s.linksByName, frame.name)
           THEN LinkAttachReceived(s, s.linksByName[frame.name], frame)
           ELSE Log(s, Ev("warn", "Attach for unknown link", Undef, Undef))
    [] frame.type = "Detach" ->
         IF frame.handle # Undef /\ Known(s.linksByRemoteHandle, frame.handle)
           THEN Log(s, Ev("link", "_detachReceived",
                          s.linksByRemoteHandle[frame.handle], Undef))
           ELSE Log(s, Ev("warn", "Detach for unknown link", Undef, Undef))
    [] frame.type = "Flow" ->
         LET s1 == FlowReceived(s, frame)
         IN  IF s.p = NoParams THEN Throw(s, "TypeError")
             ELSE IF frame.handle # Null
               THEN IF Known(s1.linksByRemoteHandle, frame.handle)
                      THEN Log(s1, Ev("link", "_flowReceived",
                                      s1.linksByRemoteHandle[frame.handle], Undef))
                      ELSE Log(s1, Ev("warn", "Flow for unknown link", Undef, Undef))
               ELSE [s1 EXCEPT !.trace =
                       @ \o [i \in 1 .. Len(s1.senderLinks) |->
                               Ev("link", "_flowReceived", s1.senderLinks[i], Undef)]]
    [] frame.type = "Transfer" ->
         IF frame.handle # Null /\ Known(s.linksByRemoteHandle, frame.handle)
           THEN Log(TransferReceived(s, frame),
                    Ev("link", "_messageReceived",
                       s.linksByRemoteHandle[frame.handle], Undef))
           ELSE Log(s, Ev("warn", "Transfer for unknown link", Undef, Undef))
    [] frame.type = "Disposition" -> DispositionReceived(s, frame)
    [] OTHER -> s

\* Session.prototype._processFrame
ProcessFrame(s, frame) ==
  IF frame.type = "Begin" /\ frame.remoteChannel = s.channel
    THEN BeginReceived(Fire(s, "beginReceived"), frame)
  ELSE IF frame.channel = Undef \/ frame.channel # s.remoteChannel
    THEN s
  ELSE CASE frame.type = "End" -> EndFrameReceived(s, frame)
    [] frame.type = "Attach" ->
         IF frame.name # "" /\ Known(s.linksByName, frame.name)
           THEN LinkAttachReceived(s, s.linksByName[frame.name], frame)
           ELSE Log(s, Ev("warn", "Attach for unknown link", Undef, Undef))
    [] frame.type = "Detach" ->
         IF frame.handle # Undef /\ Known(s.linksByRemoteHandle, frame.handle)
           THEN Log(s, Ev("link", "_detachReceived",
                          s.linksByRemoteHandle[frame.handle], Undef))
           ELSE Log(s, Ev("warn", "Detach for unknown link", Undef, Undef))
    [] frame.type = "Flow" ->
         LET s1 == FlowReceived(s, frame)
         IN  IF s.p = NoParams THEN Throw(s, "TypeError")
             ELSE IF frame.handle # Null
               THEN IF Known(s1.linksByRemoteHandle, frame.handle)
                      THEN Log(s1, Ev("link", "_flowReceived",
                                      s1.linksByRemoteHandle[frame.handle], Undef))
                      ELSE Log(s1, Ev("warn", "Flow for unknown link", Undef, Undef))
               ELSE [s1 EXCEPT !.trace =
                       @ \o [i \in 1 .. Len(s1.senderLinks) |->
                               Ev("link", "_flowReceived", s1.senderLinks[i], Undef)]]
    [] frame.type = "Transfer" ->
         IF frame.handle # Null /\ Known(s.linksByRemoteHandle, frame.handle)
           THEN Log(TransferReceived(s, frame),
                    Ev("link", "_messageReceived",
                       s.linksByRemoteHandle[frame.handle], Undef))
           ELSE Log(s, Ev("warn", "Transfer for unknown link", Undef, Undef))
    [] frame.type = "Disposition" -> DispositionReceived(s, frame)
    [] OTHER -> s

\* ----------------------------------------------------------------- actions
Count(tr, kind, what) ==
  Cardinality({i \in DOMAIN tr : tr[i].ev = kind /\ tr[i].arg = what})
Did(s, kind, what) == Count(s.trace, kind, what) > 0

Op(name, frame, a, b) == [op |-> name, frame |-> frame, a |-> a, b |-> b]

NoHist == [valid |-> FALSE, out |-> Undef, rin |-> Undef, nSend |-> 0, flow |-> FALSE]

\* The session after an operation, and what the operation was.
Becomes(s, op, h) ==
  /\ sessionSM' = s.sm
  /\ channel' = s.channel
  /\ remoteChannel' = s.remoteChannel
  /\ mapped' = s.mapped
  /\ enableSessionFlowControl' = s.fc
  /\ sessionParams' = s.p
  /\ initialOutgoingId' = s.initialOutgoingId
  /\ allocatedHandles' = s.allocatedHandles
  /\ linksByName' = s.linksByName
  /\ linksByRemoteHandle' = s.linksByRemoteHandle
  /\ senderLinks' = s.senderLinks
  /\ transfersInFlight' = s.transfersInFlight
  /\ localChannelMap' = s.localChannelMap
  /\ listeners' = s.listeners
  /\ trace' = s.trace
  /\ smLog' = s.smLog
  /\ lastOp' = op
  /\ nUnmap' = IF Did(s, "emit", "Unmapped") THEN nUnmap + 1 ELSE nUnmap
  /\ hist' = h

Init ==
  /\ sessionSM = Fresh.sm
  /\ channel = Fresh.channel
  /\ remoteChannel = Fresh.remoteChannel
  /\ mapped = Fresh.mapped
  /\ enableSessionFlowControl = Fresh.fc
  /\ sessionParams = Fresh.p
  /\ initialOutgoingId = Fresh.initialOutgoingId
  /\ allocatedHandles = Fresh.allocatedHandles
  /\ linksByName = Fresh.linksByName
  /\ linksByRemoteHandle = Fresh.linksByRemoteHandle
  /\ senderLinks = Fresh.senderLinks
  /\ transfersInFlight = Fresh.transfersInFlight
  /\ localChannelMap = Fresh.localChannelMap
  /\ listeners = Fresh.listeners
  /\ trace = <<>>
  /\ smLog = <<>>
  /\ lastOp = Op("new", NoFrame, Undef, Undef)
  /\ nBegin = 0
  /\ nUnmap = 0
  /\ hist = NoHist

\* A configuration bounds the inputs of the operations: the policies begin
\* is called with, the link policies, the frames the Connection delivers, and
\* how many begins, links, sends per begin and window top-ups a run makes.

\* session.begin(policy)
DoBegin(cfg) ==
  \E pol \in cfg.policies :
    /\ nBegin < cfg.maxBegins
    /\ Channels \ localChannelMap # {}
    /\ nBegin' = nBegin + 1
    /\ Becomes(Begin(Cur, pol), Op("begin", NoFrame, pol.outgoingWindow, pol.handleMax),
               NoHist)

\* session.attachLink(linkPolicy)
DoAttachLink(cfg) ==
  \E lp \in cfg.linkPolicies :
    /\ Cardinality(DOMAIN allocatedHandles) < cfg.maxLinks
    /\ Becomes(AttachLink(Cur, lp), Op("attachLink", NoFrame, Undef, Undef), hist)
    /\ UNCHANGED nBegin

\* session.sendMessage(link, message, options), for an attached link
DoSendMessage(cfg) ==
  \E link \in DOMAIN allocatedHandles :
    /\ sessionParams.nextOutgoingId - initialOutgoingId < cfg.maxSends
    /\ Becomes(SendMessage(Cur, link),
               Op("sendMessage", NoFrame, link, sessionParams.nextOutgoingId),
               [hist EXCEPT !.nSend = @ + 1])
    /\ UNCHANGED nBegin

\* session.addWindow(windowSize)
DoAddWindow(cfg) ==
  /\ sessionParams = NoParams \/ sessionParams.incomingWindow < cfg.maxIncoming
  /\ Becomes(AddWindow(Cur, 1), Op("addWindow", NoFrame, 1, Undef), hist)
  /\ UNCHANGED nBegin

\* session.end()
DoEnd ==
  /\ Becomes(End(Cur), Op("end", NoFrame, Undef, Undef), hist)
  /\ UNCHANGED nBegin

\* _processFrame(frame), as the Connection's FrameReceived listener or called
\* directly: the frame may come at any time, also before begin and after the
\* listener is removed.
DoProcessFrame(cfg) ==
  \E frame \in cfg.frames :
    \* the peer overdraws neither window by more than one transfer
    /\ (frame.type = "Transfer" /\ sessionParams # NoParams) =>
          /\ sessionParams.incomingWindow >= 0
          /\ Neg(sessionParams.remoteOutgoingWindow) = FALSE
    /\ LET s == ProcessFrame(Cur, frame)
           h == IF Did(s, "emit", "Mapped")
                  THEN [valid |-> sessionParams.nextOutgoingId = initialOutgoingId,
                        out |-> s.p.outgoingWindow, rin |-> s.p.remoteIncomingWindow,
                        nSend |-> 0, flow |-> FALSE]
                ELSE IF /\ frame.type = "Flow"
                        /\ frame.channel # Undef /\ frame.channel = remoteChannel
                  THEN [hist EXCEPT !.flow = TRUE]
                ELSE hist
       IN  Becomes(s, Op("frame", frame, Undef, Undef), h)
    /\ UNCHANGED nBegin

NextIn(cfg) ==
  \/ DoBegin(cfg)
  \/ DoAttachLink(cfg)
  \/ DoSendMessage(cfg)
  \/ DoAddWindow(cfg)
  \/ DoEnd
  \/ DoProcessFrame(cfg)

\* ---- the lifecycle: begins, ends, Begin and End frames on every channel,
\* one link, one send, and a frame of every other kind on channel 0
LifeBegins == 2
LifeCfg ==
  [policies |-> PolicySet({0}, {1}, {1}, {FALSE}),
   linkPolicies |-> LinkPolicySet({"a"}, {"sender"}),
   frames |-> BeginFrames(Channels, Channels \cup {Null}, {1}, {Null})
                \cup EndFrames(Channels \cup {Undef, Null}, BOOLEAN)
                \cup AttachFrames({0}, {"a"}, {0})
                \cup DetachFrames({0}, {0})
                \cup FlowFrames({0}, {Null}, {1}, {Null, Undef})
                \cup TransferFrames({0}, {0}, {Null})
                \cup DispositionFrames({0}, {"receiver"}, {0}, {Null}, {TRUE})
                \cup OtherFrames({0}),
   maxBegins |-> LifeBegins, maxLinks |-> 1, maxSends |-> 1, maxIncoming |-> 2]

Next == NextIn(LifeCfg)

Spec == Init /\ [][Next]_vars

\* ---- the send windows: policies and peers with every small window, Flow
\* frames with and without nextIncomingId, up to WinSends sends
WinStartId == 1
WinWindow == 2
WinSends == 3
WinCfg ==
  [policies |-> PolicySet({WinStartId}, 0 .. WinWindow, {1}, BOOLEAN),
   linkPolicies |-> LinkPolicySet({"a"}, {"sender"}),
   frames |-> BeginFrames({0}, {0}, 0 .. WinWindow, {Null})
                \cup FlowFrames({0}, {Null, WinStartId + 1}, {0, 5}, {Null}),
   maxBegins |-> 1, maxLinks |-> 1, maxSends |-> WinSends, maxIncoming |-> 2]

NextWin == NextIn(WinCfg)

SpecWin == Init /\ [][NextWin]_vars

\* ---- settlement: up to DispSends sends from id 0, Disposition frames of
\* both roles over every range of those ids, with and without `last`
DispSends == 3
DispCfg ==
  [policies |-> PolicySet({0}, {2}, {1}, {FALSE}),
   linkPolicies |-> LinkPolicySet({"a"}, {"sender"}),
   frames |-> BeginFrames({0}, {0}, {2}, {Null})
                \cup DispositionFrames({0}, {"receiver", "sender"}, 0 .. DispSends - 1,
                                       {Null} \cup (0 .. DispSends - 1), BOOLEAN),
   maxBegins |-> 1, maxLinks |-> 1, maxSends |-> DispSends, maxIncoming |-> 2]

NextDisp == NextIn(DispCfg)

SpecDisp == Init /\ [][NextDisp]_vars

\* ---- handles: policies and peers with handleMax absent, 0 .. LinkHandleMax,
\* up to LinkHandleMax + 2 attaches of links of both roles and two names
LinkHandleMax == 1
LinkCfg ==
  [policies |-> PolicySet({0}, {1}, {Undef} \cup (0 .. LinkHandleMax), {FALSE}),
   linkPolicies |-> LinkPolicySet({"a", "b"}, {"sender", "receiver"}),
   frames |-> BeginFrames({0}, {0}, {1}, {Null} \cup (0 .. LinkHandleMax)),
   maxBegins |-> 1, maxLinks |-> LinkHandleMax + 2, maxSends |-> 1, maxIncoming |-> 2]

NextLink == NextIn(LinkCfg)

SpecLink == Init /\ [][NextLink]_vars

\* ------------------------------------------------------------------ claims
\* a field the frame does not have
Absent(x) == x = Undef \/ x = Null
IsFrame(op, type) == op.op = "frame" /\ op.frame.type = type
\* a Begin frame addressed to the local channel ch
MatchingBegin(op, ch) == IsFrame(op, "Begin") /\ op.frame.remoteChannel = ch
\* a frame _processFrame accepts as arriving on the session's remote channel rc
OnChannel(op, rc) ==
  op.op = "frame" /\ op.frame.channel # Undef /\ op.frame.channel = rc

\* The transition table of the specification, section 4.1.
Table ==
  {<<"UNMAPPED", "sendBegin", "BEGIN_SENT">>,
   <<"BEGIN_SENT", "beginReceived", "MAPPED">>,
   <<"MAPPED", "sendEnd", "END_SENT">>,
   <<"MAPPED", "endReceived", "END_RCVD">>,
   <<"END_SENT", "endReceived", "UNMAPPED">>,
   <<"END_RCVD", "sendEnd", "UNMAPPED">>,
   <<"DISCARDING", "endReceived", "UNMAPPED">>}

Listed(from, trigger) == \E row \in Table : row[1] = from /\ row[2] = trigger

\* The state machine's steps within one operation go from state `before` to
\* state `after`, each along a row of Table or, for a trigger the table does
\* not list for the state, nowhere.
AlongTable(before, log, after) ==
  /\ \A i \in DOMAIN log :
       /\ log[i].from = (IF i = 1 THEN before ELSE log[i - 1].to)
       /\ IF Listed(log[i].from, log[i].trigger)
            THEN <<log[i].from, log[i].trigger, log[i].to>> \in Table
            ELSE log[i].to = log[i].from
  /\ after = (IF log = <<>> THEN before ELSE log[Len(log)].to)

Triggered(log) == {log[i].trigger : i \in DOMAIN log}

\* C1: the lifecycle state changes only along the transitions of the table:
\* every operation moves the state by the triggers it fires (begin fires send
\* Begin, end fires at most send End, a frame fires receive Begin, or receive
\* End and then possibly send End, any other operation fires none), each
\* trigger follows its row of the table, and a trigger the table does not
\* list for the current state leaves the state unchanged.
C1_TransitionsFollowTable ==
  [][/\ AlongTable(sessionSM, smLog', sessionSM')
     /\ lastOp'.op = "begin" => smLog' = <<[from |-> sessionSM, trigger |-> "sendBegin",
                                            to |-> sessionSM']>>
     /\ lastOp'.op = "end" => Triggered(smLog') \subseteq {"sendEnd"}
     /\ lastOp'.op = "frame" =>
          Triggered(smLog') \in {{}, {"beginReceived"}, {"endReceived"},
                                 {"endReceived", "sendEnd"}}
     /\ lastOp'.op \notin {"begin", "end", "frame"} => smLog' = <<>>]_vars

\* C1 witness: an End frame received in MAPPED took the session through
\* END_RCVD to UNMAPPED within one dispatch.
C1_Witness ==
  /\ IsFrame(lastOp, "End")
  /\ smLog = <<[from |-> "MAPPED", trigger |-> "endReceived", to |-> "END_RCVD"],
               [from |-> "END_RCVD", trigger |-> "sendEnd", to |-> "UNMAPPED"]>>
  /\ sessionSM = "UNMAPPED"

\* C2: begin from UNMAPPED then a matching Begin reaches MAPPED; end() from
\* MAPPED sends End without cleaning up, the End received then reaches
\* UNMAPPED with exactly one cleanup (one dissociateSession, one Unmapped
\* notification); there is never more than one cleanup per begin, and an End
\* frame delivered once every begun session is cleaned up cleans up nothing.
C2_BeginEndCleanupOnce ==
  [][/\ (sessionSM = "UNMAPPED" /\ lastOp'.op = "begin") => sessionSM' = "BEGIN_SENT"
     /\ (sessionSM = "BEGIN_SENT" /\ MatchingBegin(lastOp', channel)) =>
          sessionSM' = "MAPPED"
     /\ (sessionSM = "MAPPED" /\ lastOp'.op = "end") =>
          /\ sessionSM' = "END_SENT"
          /\ nUnmap' = nUnmap
          /\ Count(trace', "sendFrame", "End") = 1
     /\ (sessionSM = "END_SENT" /\ IsFrame(lastOp', "End") /\ OnChannel(lastOp', remoteChannel)) =>
          /\ sessionSM' = "UNMAPPED"
          /\ nUnmap' = nUnmap + 1
          /\ Count(trace', "conn", "dissociateSession") = 1
          /\ Count(trace', "emit", "Unmapped") = 1
     /\ nUnmap' <= nBegin'
     /\ (nUnmap = nBegin /\ IsFrame(lastOp', "End")) =>
          /\ nUnmap' = nUnmap
          /\ Count(trace', "conn", "dissociateSession") = 0
          /\ Count(trace', "emit", "Unmapped") = 0]_vars

\* C2 witness: the End frame answering our End arrived in END_SENT and the
\* one cleanup of the one begin ran.
C2_Witness ==
  /\ IsFrame(lastOp, "End")
  /\ smLog = <<[from |-> "END_SENT", trigger |-> "endReceived", to |-> "UNMAPPED"]>>
  /\ nBegin = 1 /\ nUnmap = 1
  /\ channel = Undef /\ localChannelMap = {}

\* C3 (as claimed): begin called in a state other than UNMAPPED reserves no
\* channel, sends no Begin frame and keeps the session parameters.
C3_BeginOnlyFromUnmapped ==
  [][(lastOp'.op = "begin" /\ sessionSM # "UNMAPPED") =>
       /\ localChannelMap' = localChannelMap
       /\ Count(trace', "sendFrame", "Begin") = 0
       /\ sessionParams' = sessionParams]_vars

Max(a, b) == IF a >= b THEN a ELSE b

\* C4: with flow control enabled, a sendMessage made when remoteIncomingWindow
\* is 0 or less throws the over-capacity error, adds nothing to inFlight and
\* does not reach the Link, and keeps nextOutgoingId incremented and both
\* windows decremented; every send, failed or not, uses the current
\* nextOutgoingId and moves it up by one, and nothing but a send (or a new
\* begin) changes it, so a later send never reuses the consumed id.
C4_OverCapacityKeepsCounters ==
  [][/\ (/\ lastOp'.op = "sendMessage"
         /\ enableSessionFlowControl
         /\ IsNum(sessionParams.remoteIncomingWindow)
         /\ sessionParams.remoteIncomingWindow <= 0) =>
          /\ trace' = <<Ev("throw", "OverCapacityError", Undef, Undef)>>
          /\ transfersInFlight' = transfersInFlight
          /\ sessionParams'.remoteIncomingWindow = sessionParams.remoteIncomingWindow - 1
          /\ sessionParams'.outgoingWindow = sessionParams.outgoingWindow - 1
     /\ lastOp'.op = "sendMessage" =>
          /\ sessionParams'.nextOutgoingId = sessionParams.nextOutgoingId + 1
          /\ transfersInFlight' \ transfersInFlight \subseteq {sessionParams.nextOutgoingId}
          /\ \A i \in DOMAIN trace' :
               trace'[i].arg = "_sendMessage" => trace'[i].m = sessionParams.nextOutgoingId
     /\ lastOp'.op \notin {"sendMessage", "begin"} =>
          sessionParams'.nextOutgoingId = sessionParams.nextOutgoingId]_vars

\* C4 witness: the first send of a session whose peer gave no window failed.
C4_Witness ==
  /\ lastOp.op = "sendMessage"
  /\ enableSessionFlowControl
  /\ trace = <<Ev("throw", "OverCapacityError", Undef, Undef)>>
  /\ sessionParams.remoteIncomingWindow = 0 - 1
  /\ sessionParams.nextOutgoingId = initialOutgoingId + 1
  /\ transfersInFlight = {}

\* C5 (as claimed): with flow control disabled, M sends after the peer's Begin
\* and no Flow frame since leave outgoingWindow = max(0, W_out - M) and
\* remoteIncomingWindow = max(0, W_rin - M).
C5_WindowsAfterSends ==
  (mapped /\ hist.valid /\ ~hist.flow /\ ~enableSessionFlowControl) =>
    /\ sessionParams.outgoingWindow = Max(0, hist.out - hist.nSend)
    /\ sessionParams.remoteIncomingWindow = Max(0, hist.rin - hist.nSend)

\* C6: a Flow frame on the session's channel sets nextIncomingId and
\* remoteOutgoingWindow from the frame and recomputes remoteIncomingWindow
\* from the initial outgoing id when the frame has no nextIncomingId and from
\* frame.nextIncomingId when it has one, against the current nextOutgoingId.
C6_FlowRecompute ==
  [][(IsFrame(lastOp', "Flow") /\ OnChannel(lastOp', remoteChannel)) =>
       LET f == lastOp'.frame
           base == IF Absent(f.nextIncomingId) THEN initialOutgoingId
                                               ELSE f.nextIncomingId
       IN  /\ sessionParams'.nextIncomingId = f.nextOutgoingId
           /\ sessionParams'.remoteOutgoingWindow = f.outgoingWindow
           /\ sessionParams'.remoteIncomingWindow =
                base + f.incomingWindow - sessionParams.nextOutgoingId
           /\ sessionParams'.nextOutgoingId = sessionParams.nextOutgoingId]_vars

\* C6 witness: initial id X, three sends, then a Flow frame with
\* nextIncomingId X+1 and incomingWindow 5: the window is 3.
C6_Witness ==
  /\ IsFrame(lastOp, "Flow") /\ OnChannel(lastOp, remoteChannel)
  /\ lastOp.frame.nextIncomingId = initialOutgoingId + 1
  /\ lastOp.frame.incomingWindow = 5
  /\ sessionParams.nextOutgoingId = initialOutgoingId + 3
  /\ sessionParams.remoteIncomingWindow = 3

\* C7 (as claimed): a Transfer frame on the session's channel for a handle no
\* link is registered under still takes one off incomingWindow and
\* remoteOutgoingWindow, and reaches no Link.
C7_UnroutableTransferCounts ==
  [][(/\ IsFrame(lastOp', "Transfer") /\ OnChannel(lastOp', remoteChannel)
      /\ ~Known(linksByRemoteHandle, lastOp'.frame.handle)) =>
       /\ sessionParams'.incomingWindow = sessionParams.incomingWindow - 1
       /\ sessionParams'.remoteOutgoingWindow = Dec(sessionParams.remoteOutgoingWindow)
       /\ Count(trace', "link", "_messageReceived") = 0]_vars

\* C8 (as claimed): a settled receiver-role Disposition for [first, last], last
\* defaulting to first when the frame has none, removes exactly the tracked
\* ids inside the range and leaves inFlight as it is when processed again.
C8_DispositionSettlesRange ==
  [][(/\ IsFrame(lastOp', "Disposition") /\ OnChannel(lastOp', remoteChannel)
      /\ lastOp'.frame.role = "receiver" /\ lastOp'.frame.settled) =>
       LET first == lastOp'.frame.first
           last == IF Absent(lastOp'.frame.last) THEN first ELSE lastOp'.frame.last
           range == {id \in transfersInFlight : first <= id /\ id <= last}
       IN  /\ transfersInFlight' = transfersInFlight \ range
           /\ DispositionReceived(Cur', lastOp'.frame).transfersInFlight
                = transfersInFlight']_vars

\* The handles in [0, H] that are in use.
UsedUpTo(H) == {h \in DOMAIN allocatedHandles : h <= H}

\* C9: with handleMax = H, an attachLink made while fewer than H+1 links are
\* attached returns a link with a handle in [0, H] that no attached link has;
\* an attachLink made when all H+1 handles of [0, H] are in use throws the
\* over-capacity error and leaves handles, linksByName and senderLinks alone.
C9_HandleAllocation ==
  [][(lastOp'.op = "attachLink" /\ IsNum(sessionParams.handleMax)) =>
       LET H == sessionParams.handleMax
           new == DOMAIN allocatedHandles' \ DOMAIN allocatedHandles
       IN  /\ Cardinality(DOMAIN allocatedHandles) <= H =>
                /\ Cardinality(new) = 1
                /\ \A h \in new : 0 <= h /\ h <= H
                /\ \A h \in new : trace' = <<Ev("link", "attach", h, Undef)>>
                /\ \A h \in DOMAIN allocatedHandles :
                     allocatedHandles'[h] = allocatedHandles[h]
           /\ Cardinality(UsedUpTo(H)) - 1 = H =>
                /\ trace' = <<Ev("throw", "OverCapacityError", Undef, Undef)>>
                /\ allocatedHandles' = allocatedHandles
                /\ linksByName' = linksByName
                /\ senderLinks' = senderLinks]_vars

\* C9 witness: handleMax is 1, handles 0 and 1 are attached, and the third
\* attachLink has just failed.
C9_Witness ==
  /\ lastOp.op = "attachLink"
  /\ sessionParams.handleMax = 1
  /\ DOMAIN allocatedHandles = {0, 1}
  /\ trace = <<Ev("throw", "OverCapacityError", Undef, Undef)>>

\* C10 (as claimed): when an operation has taken the session from a mapped
\* state to UNMAPPED and cleaned up, the session is deregistered, its channel
\* released, and the handle map, linksByName, senderLinks and inFlight are
\* empty.
C10_CleanupIsFull ==
  (sessionSM = "UNMAPPED" /\ smLog # <<>> /\ Count(trace, "emit", "Unmapped") > 0) =>
    /\ channel = Undef /\ remoteChannel = Undef /\ ~mapped
    /\ DOMAIN allocatedHandles = {}
    /\ DOMAIN linksByName = {}
    /\ senderLinks = <<>>
    /\ transfersInFlight = {}

\* C11 (as claimed): end() called again in END_SENT keeps the lifecycle state
\* and transmits no further End frame.
C11_EndIdempotentAfterEnd ==
  [][(lastOp'.op = "end" /\ sessionSM = "END_SENT") =>
       /\ sessionSM' = sessionSM
       /\ Count(trace', "sendFrame", "End") = 0]_vars

\* The fields of the session and of its Connection.
SessionVars ==
  <<sessionSM, channel, remoteChannel, mapped, enableSessionFlowControl,
    sessionParams, initialOutgoingId, allocatedHandles, linksByName,
    linksByRemoteHandle, senderLinks, transfersInFlight, localChannelMap, listeners>>

\* What _unmap does to the Connection and the listeners of the session on
\* local channel ch, in order.
CleanupOf(ch) ==
  <<Ev("conn", "removeListener", Undef, Undef),
    Ev("conn", "dissociateSession", ch, Undef),
    Ev("emit", "Unmapped", Undef, Undef)>>

\* C12: end() called with no remote channel, after begin, warns, sends no End
\* frame and cleans up at once: the frame listener is removed, the local
\* channel is dissociated and cleared, and Unmapped is emitted exactly once;
\* end() called with neither channel (never begun, or already unmapped) only
\* warns and changes nothing.
C12_EndBeforeMapped ==
  [][(lastOp'.op = "end" /\ remoteChannel = Undef) =>
       IF channel # Undef
         THEN /\ trace' = <<Ev("warn", "end before mapped", channel, Undef)>>
                            \o CleanupOf(channel)
              /\ localChannelMap' = localChannelMap \ {channel}
              /\ listeners' = listeners - 1
              /\ channel' = Undef /\ remoteChannel' = Undef /\ ~mapped'
         ELSE /\ trace' = <<Ev("warn", "end before mapped", Undef, Undef)>>
              /\ UNCHANGED SessionVars]_vars

\* C12 witness: end() right after the one begin, before any Begin frame, has
\* released channel 0 and removed the listener.
C12_Witness ==
  /\ lastOp.op = "end"
  /\ nBegin = 1
  /\ trace = <<Ev("warn", "end before mapped", 0, Undef)>> \o CleanupOf(0)
  /\ channel = Undef /\ localChannelMap = {} /\ listeners = 0

\* C13 (as claimed): the local channel is defined exactly in BEGIN_SENT,
\* MAPPED and END_RCVD, and the remote channel exactly in BEGIN_RCVD, MAPPED,
\* END_SENT and DISCARDING.
C13_ChannelsMatchState ==
  /\ channel # Undef <=> sessionSM \in {"BEGIN_SENT", "MAPPED", "END_RCVD"}
  /\ remoteChannel # Undef <=>
       sessionSM \in {"BEGIN_RCVD", "MAPPED", "END_SENT", "DISCARDING"}

\* C14 (as claimed): with flow control disabled, remoteIncomingWindow and
\* outgoingWindow are never negative once the session is mapped, whatever
\* sends and Flow frames follow the peer's Begin (nothing was sent before it).
C14_WindowsNeverNegative ==
  (mapped /\ hist.valid /\ ~enableSessionFlowControl) =>
    /\ Neg(sessionParams.remoteIncomingWindow) = FALSE
    /\ Neg(sessionParams.outgoingWindow) = FALSE

\* C15: a frame that is not a Begin addressed to the local channel and whose
\* channel is missing or is not the session's remoteChannel is dropped: no
\* field of the session or of its Connection changes, the state machine is
\* not fired, no Link is called and nothing is emitted.
C15_StrayFrameDropped ==
  [][(/\ lastOp'.op = "frame"
      /\ ~MatchingBegin(lastOp', channel)
      /\ ~OnChannel(lastOp', remoteChannel)) =>
       /\ UNCHANGED SessionVars
       /\ trace' = <<>>
       /\ smLog' = <<>>]_vars

\* C15 witness: a Transfer frame on channel 0, for a handle a link is
\* registered under, reached a mapped session whose remote channel is 1.
C15_Witness ==
  /\ IsFrame(lastOp, "Transfer")
  /\ lastOp.frame.channel = 0
  /\ Known(linksByRemoteHandle, lastOp.frame.handle)
  /\ sessionSM = "MAPPED" /\ remoteChannel = 1
  /\ trace = <<>>

\* C16: an End frame on the session's channel in MAPPED emits the error
\* notification first when the frame carries an error, then sends one End
\* frame on the local channel, then cleans up, ending in UNMAPPED; in END_SENT
\* it sends no End frame and cleans up; with or without an error the session
\* is unmapped afterwards.
C16_EndReceivedOrder ==
  [][(IsFrame(lastOp', "End") /\ OnChannel(lastOp', remoteChannel)) =>
       LET err == IF lastOp'.frame.error
                    THEN <<Ev("emit", "ErrorReceived", Undef, Undef)>> ELSE <<>>
       IN  /\ sessionSM = "MAPPED" =>
                /\ trace' = err \o <<Ev("sendFrame", "End", channel, Undef)>>
                                \o CleanupOf(channel)
                /\ sessionSM' = "UNMAPPED"
           /\ sessionSM = "END_SENT" =>
                /\ trace' = err \o CleanupOf(channel)
                /\ sessionSM' = "UNMAPPED"
           /\ channel' = Undef /\ remoteChannel' = Undef /\ ~mapped'
           /\ channel \notin localChannelMap']_vars

\* C16 witness: an End frame carrying an error arrived in MAPPED.
C16_Witness ==
  /\ IsFrame(lastOp, "End") /\ lastOp.frame.error
  /\ smLog = <<[from |-> "MAPPED", trigger |-> "endReceived", to |-> "END_RCVD"],
               [from |-> "END_RCVD", trigger |-> "sendEnd", to |-> "UNMAPPED"]>>
  /\ trace = <<Ev("emit", "ErrorReceived", Undef, Undef),
               Ev("sendFrame", "End", 0, Undef)>> \o CleanupOf(0)
  /\ sessionSM = "UNMAPPED" /\ ~mapped

\* C17 (as claimed): after a Begin frame addressed to the local channel is
\* processed in BEGIN_SENT, handleMax is min(local handleMax, peer value), the peer value being
\* frame.handleMax when the frame has one and the default otherwise, for every
\* local and peer value, 0 included.
C17_HandleMaxIsMin ==
  [][(/\ MatchingBegin(lastOp', channel) /\ sessionSM = "BEGIN_SENT"
      /\ IsNum(sessionParams.handleMax)) =>
       LET peer == IF Absent(lastOp'.frame.handleMax) THEN defaultHandleMax
                                                    ELSE lastOp'.frame.handleMax
       IN  sessionParams'.handleMax =
             (IF sessionParams.handleMax <= peer THEN sessionParams.handleMax
                                                 ELSE peer)]_vars

\* C18: the lifecycle state is never BEGIN_RCVD nor DISCARDING.
C18_NoBeginRcvdNoDiscarding ==
  sessionSM \in {"UNMAPPED", "BEGIN_SENT", "MAPPED", "END_SENT", "END_RCVD"}

\* C18 witness: a peer's Begin frame arrived before any begin and the session
\* stayed in UNMAPPED.
C18_Witness ==
  /\ IsFrame(lastOp, "Begin")
  /\ nBegin = 0
  /\ sessionSM = "UNMAPPED"

\* C19 (as claimed): a Begin frame addressed to the local channel that arrives
\* in a state other than BEGIN_SENT changes neither remoteChannel nor
\* nextIncomingId, remoteIncomingWindow, remoteOutgoingWindow or handleMax,
\* and emits no Mapped notification.
C19_BeginOnlyInBeginSent ==
  [][(MatchingBegin(lastOp', channel) /\ sessionSM # "BEGIN_SENT") =>
       /\ remoteChannel' = remoteChannel
       /\ sessionParams' = sessionParams
       /\ Count(trace', "emit", "Mapped") = 0]_vars

\* C20 (as claimed): when an operation has run the unmap cleanup, the
\* lifecycle state is UNMAPPED.
C20_CleanupOnlyInUnmapped ==
  Count(trace, "emit", "Unmapped") > 0 => sessionSM = "UNMAPPED"

====
